---- MODULE Spec2Model ----
(***************************************************************************)
(* Model of the monitoring-schedule configuration generator:               *)
(*   src/utils.py                      the adapter, resolver,              *)
(*                                     post-processor and extender         *)
(*   src/get_baselines_and_configs.py  the entry point main()              *)
(*                                                                         *)
(* Strings are sequences of tokens. A token is a TLA+ string that holds no *)
(* "/" unless it is the one-character token "/" itself, so that            *)
(* str.split("/") and str.split("//") act on tokens exactly as they act on *)
(* characters. A JSON object is a function from its keys to its values.    *)
(*                                                                         *)
(* A Python call is modelled by an operator that returns a record          *)
(*   [ok, val, err, fx]                                                    *)
(* ok: returned (TRUE) or raised (FALSE); val: the return value; err: the  *)
(* exception; fx: the effects so far, [store, calls, log]: the object      *)
(* store, the service calls issued and the logger.error lines emitted.     *)
(***************************************************************************)
EXTENDS Integers, Sequences, FiniteSets, TLC

VARIABLES
    pc,          \* position of the run
    store,       \* the object store: <<bucket, key>> -> body
    calls,       \* service calls issued so far, in order
    log,         \* logger.error lines emitted so far, in order
    inp,         \* the arguments of the function under study
    out,         \* its outcome: [ok, val, err]
    mainv,       \* main()'s local variables
    files,       \* the local file system's export files: name -> config
    raised       \* the exception that left main(), or NoExc

vars == <<pc, store, calls, log, inp, out, mainv, files, raised>>

None == "None"
\* exceptions are records [type, arg]; NoExc stands for "no exception"
Exc(type, arg) == [type |-> type, arg |-> arg]
NoExc == Exc("NoExc", "")
KeyError(k) == Exc("KeyError", k)

---------------------------------------------------------------------------
(* Bounds *)

\* longest key path, in segments, of a store URI drawn as an input
MaxKeySegments == 2
\* longest project tag list the tag service returns
MaxTagListLen == 2
\* most parameters a template defines besides StageName
MaxTemplateExtras == 1

---------------------------------------------------------------------------
(* Python built-ins *)

\* {**a, **b}, dict.update: b's entries over a's
Overlay(a, b) ==
    [k \in DOMAIN a \cup DOMAIN b |-> IF k \in DOMAIN b THEN b[k] ELSE a[k]]

EmptyDict == [k \in {} |-> None]

\* d.get(k, default)
DictGet(d, k, default) == IF k \in DOMAIN d THEN d[k] ELSE default

\* does sep start at position i of s
MatchAt(s, sep, i) ==
    /\ i + Len(sep) - 1 <= Len(s)
    /\ \A j \in 1..Len(sep) : s[i + j - 1] = sep[j]

\* first position at or after i where sep starts in s, 0 when there is none
RECURSIVE FindFrom(_, _, _)
FindFrom(s, sep, i) ==
    IF i + Len(sep) - 1 > Len(s) THEN 0
    ELSE IF MatchAt(s, sep, i) THEN i
    ELSE FindFrom(s, sep, i + 1)

\* s.split(sep): left to right, non-overlapping, empty pieces kept
RECURSIVE Split(_, _)
Split(s, sep) ==
    LET i == FindFrom(s, sep, 1) IN
    IF i = 0 THEN <<s>>
    ELSE <<SubSeq(s, 1, i - 1)>> \o Split(SubSeq(s, i + Len(sep), Len(s)), sep)

\* sep.join(parts)
RECURSIVE Join(_, _)
Join(sep, parts) ==
    IF Len(parts) = 0 THEN <<>>
    ELSE IF Len(parts) = 1 THEN parts[1]
    ELSE parts[1] \o sep \o Join(sep, Tail(parts))

\* parts[:-1]
AllButLast(parts) == SubSeq(parts, 1, Len(parts) - 1)

Slash == <<"/">>
S3Scheme == <<"s3:", "/", "/">>

---------------------------------------------------------------------------
(* Outcomes and effects *)

Fx(st, cs, lg) == [store |-> st, calls |-> cs, log |-> lg]

Return(v, fx) == [ok |-> TRUE, val |-> v, err |-> NoExc, fx |-> fx]
Raise(e, fx) == [ok |-> FALSE, val |-> None, err |-> e, fx |-> fx]

Called(fx, c) == [fx EXCEPT !.calls = Append(@, c)]
Logged(fx, line) == [fx EXCEPT !.log = Append(@, line)]

\* exception_handler without the logger.error line
exception_handler_silent(name, r) == r

\* @exception_handler: on an exception of func, logger.error(f"Error in
\* {func.__name__}: {str(e)}") and raise e; otherwise func's return value
exception_handler(name, r) ==
    IF r.ok THEN r
    ELSE [r EXCEPT !.fx = Logged(@, [fn |-> name, msg |-> r.err])]

---------------------------------------------------------------------------
(* Artifact store adapter: src/utils.py 142-185 *)

\* an object body is JSON text, held as the object it encodes, or text
\* that is no JSON
json_dumps(doc) == [kind |-> "json", doc |-> doc]
NotJson == [kind |-> "bytes", doc |-> EmptyDict]

\* json.loads(s3_client.get_object(Bucket, Key)["Body"].read().decode("utf-8"))
get_json_file_from_s3_body(bucket_name, file_key, s3_client, fx) ==
    LET fx1 == Called(fx, [op |-> "get_object", args |-> <<bucket_name, file_key>>])
        loc == <<bucket_name, file_key>>
    IN  IF loc \notin DOMAIN fx.store THEN Raise(Exc("ClientError", "NoSuchKey"), fx1)
        ELSE IF fx.store[loc].kind # "json" THEN Raise(Exc("JSONDecodeError", ""), fx1)
        ELSE Return(fx.store[loc].doc, fx1)

get_json_file_from_s3(bucket_name, file_key, s3_client, fx) ==
    exception_handler("get_json_file_from_s3",
                      get_json_file_from_s3_body(bucket_name, file_key, s3_client, fx))

\* s3_client.put_object(Body=json.dumps(file_contents, indent=4), Bucket, Key);
\* s3_client.put_ok is the service's answer to a put
upload_json_to_s3_body(file_contents, bucket_name, file_key, s3_client, fx) ==
    LET fx1 == Called(fx, [op |-> "put_object", args |-> <<bucket_name, file_key>>])
        loc == <<bucket_name, file_key>>
    IN  IF ~s3_client.put_ok THEN Raise(Exc("ClientError", "PutFailed"), fx1)
        ELSE Return(None,
                    [fx1 EXCEPT !.store =
                        [l \in DOMAIN fx.store \cup {loc} |->
                            IF l = loc THEN json_dumps(file_contents) ELSE fx.store[l]]])

upload_json_to_s3(file_contents, bucket_name, file_key, s3_client, fx) ==
    exception_handler("upload_json_to_s3",
                      upload_json_to_s3_body(file_contents, bucket_name, file_key, s3_client, fx))

\* bucket_key_string = file_s3_uri.split("//")[1]
\* return (bucket_key_string.split("/")[0], "/".join(bucket_key_string.split("/")[1:]))
get_bucket_name_and_file_key_body(file_s3_uri, fx) ==
    LET halves == Split(file_s3_uri, <<"/", "/">>) IN
    IF Len(halves) < 2 THEN Raise(Exc("IndexError", "list index out of range"), fx)
    ELSE LET segs == Split(halves[2], Slash) IN
         Return(<<segs[1], Join(Slash, Tail(segs))>>, fx)

get_bucket_name_and_file_key(file_s3_uri, fx) ==
    exception_handler("get_bucket_name_and_file_key",
                      get_bucket_name_and_file_key_body(file_s3_uri, fx))

\* "".join(["s3://", bucket, "/", key])
S3Uri(bucket, key) == S3Scheme \o bucket \o Slash \o key

\* f"{'/'.join(key.split('/')[:-1])}/{name}"
SiblingKey(key, name) == Join(Slash, AllButLast(Split(key, Slash))) \o Slash \o <<name>>

---------------------------------------------------------------------------
(* Baseline post-processor: src/utils.py 188-255 *)

\* the function's statements in order; each subscript, parse, read and
\* write either raises, ending the function, or goes on to the next
process_bias_baselines_body(bias_baselines, s3_client, fx) ==
    \* 202-204
    IF "PreTrainingConstraints" \notin DOMAIN bias_baselines
    THEN Raise(KeyError("PreTrainingConstraints"), fx) ELSE
    LET pre == get_bucket_name_and_file_key(bias_baselines["PreTrainingConstraints"], fx) IN
    IF ~pre.ok THEN pre ELSE
    \* 205-207
    IF "PostTrainingConstraints" \notin DOMAIN bias_baselines
    THEN Raise(KeyError("PostTrainingConstraints"), pre.fx) ELSE
    LET post == get_bucket_name_and_file_key(bias_baselines["PostTrainingConstraints"], pre.fx) IN
    IF ~post.ok THEN post ELSE
    \* 209-210
    LET pre_training_json == get_json_file_from_s3(pre.val[1], pre.val[2], s3_client, post.fx) IN
    IF ~pre_training_json.ok THEN pre_training_json ELSE
    LET post_training_json ==
            get_json_file_from_s3(post.val[1], post.val[2], s3_client, pre_training_json.fx) IN
    IF ~post_training_json.ok THEN post_training_json ELSE
    \* 212-216
    LET combined == Overlay(pre_training_json.val, post_training_json.val)
        combined_file_key == SiblingKey(post.val[2], "combined_bias_constraints.json")
        up == upload_json_to_s3(combined, post.val[1], combined_file_key, s3_client,
                                post_training_json.fx)
    IN
    IF ~up.ok THEN up ELSE
    \* 219-222
    IF "ConfigFile" \notin DOMAIN bias_baselines THEN Raise(KeyError("ConfigFile"), up.fx) ELSE
    Return([ConfigFile |-> bias_baselines["ConfigFile"],
            Constraints |-> S3Uri(post.val[1], combined_file_key)], up.fx)

process_bias_baselines(bias_baselines, s3_client, fx) ==
    exception_handler("process_bias_baselines",
                      process_bias_baselines_body(bias_baselines, s3_client, fx))

\* process_explainability_config_file replacing the predictor section by
\* {"model_name": model_name} instead of updating it
process_explainability_config_file_body_replace(explainability_baselines, model_name, s3_client, fx) ==
    IF "ConfigFile" \notin DOMAIN explainability_baselines
    THEN Raise(KeyError("ConfigFile"), fx) ELSE
    LET loc == get_bucket_name_and_file_key(explainability_baselines["ConfigFile"], fx) IN
    IF ~loc.ok THEN loc ELSE
    LET config_file_json == get_json_file_from_s3(loc.val[1], loc.val[2], s3_client, loc.fx) IN
    IF ~config_file_json.ok THEN config_file_json ELSE
    IF "predictor" \notin DOMAIN config_file_json.val
    THEN Raise(KeyError("predictor"), config_file_json.fx) ELSE
    LET patched == [config_file_json.val EXCEPT
                        !["predictor"] = [k \in {"model_name"} |-> model_name]]
        monitor_config_file_key == SiblingKey(loc.val[2], "monitor_analysis_config.json")
        up == upload_json_to_s3(patched, loc.val[1], monitor_config_file_key, s3_client,
                                config_file_json.fx)
    IN
    IF ~up.ok THEN up ELSE
    IF "Constraints" \notin DOMAIN explainability_baselines
    THEN Raise(KeyError("Constraints"), up.fx) ELSE
    Return([ConfigFile |-> S3Uri(loc.val[1], monitor_config_file_key),
            Constraints |-> explainability_baselines["Constraints"]], up.fx)

process_explainability_config_file_body(explainability_baselines, model_name, s3_client, fx) ==
    \* 242
    IF "ConfigFile" \notin DOMAIN explainability_baselines
    THEN Raise(KeyError("ConfigFile"), fx) ELSE
    LET loc == get_bucket_name_and_file_key(explainability_baselines["ConfigFile"], fx) IN
    IF ~loc.ok THEN loc ELSE
    \* 244
    LET config_file_json == get_json_file_from_s3(loc.val[1], loc.val[2], s3_client, loc.fx) IN
    IF ~config_file_json.ok THEN config_file_json ELSE
    \* 246: config_file_json["predictor"].update({"model_name": model_name})
    IF "predictor" \notin DOMAIN config_file_json.val
    THEN Raise(KeyError("predictor"), config_file_json.fx) ELSE
    LET patched == [config_file_json.val EXCEPT
                        !["predictor"] = Overlay(@, [k \in {"model_name"} |-> model_name])]
        \* 248-250
        monitor_config_file_key == SiblingKey(loc.val[2], "monitor_analysis_config.json")
        up == upload_json_to_s3(patched, loc.val[1], monitor_config_file_key, s3_client,
                                config_file_json.fx)
    IN
    IF ~up.ok THEN up ELSE
    \* 252-255
    IF "Constraints" \notin DOMAIN explainability_baselines
    THEN Raise(KeyError("Constraints"), up.fx) ELSE
    Return([ConfigFile |-> S3Uri(loc.val[1], monitor_config_file_key),
            Constraints |-> explainability_baselines["Constraints"]], up.fx)

process_explainability_config_file(explainability_baselines, model_name, s3_client, fx) ==
    exception_handler("process_explainability_config_file",
        process_explainability_config_file_body(explainability_baselines, model_name,
                                                s3_client, fx))

---------------------------------------------------------------------------
(* Baseline resolver: src/utils.py 110-139 *)

\* a service response: the call raised (ok = FALSE) or returned body
Response(body) == [ok |-> TRUE, body |-> body]
ServiceError == [ok |-> FALSE, body |-> EmptyDict]

\* get_baselines_and_model_name subscripting the model package's response,
\* ["DriftCheckBaselines"], where the code calls .get("DriftCheckBaselines", {})
get_baselines_and_model_name_body_subscript(endpoint_name, sm_client, fx) ==
    LET fx1 == Called(fx, [op |-> "describe_endpoint", args |-> <<endpoint_name>>]) IN
    IF ~sm_client.describe_endpoint.ok THEN Raise(Exc("ClientError", "describe_endpoint"), fx1) ELSE
    LET endpoint_config_name == sm_client.describe_endpoint.body.EndpointConfigName
        fx2 == Called(fx1, [op |-> "describe_endpoint_config", args |-> <<endpoint_config_name>>])
    IN
    IF ~sm_client.describe_endpoint_config.ok
    THEN Raise(Exc("ClientError", "describe_endpoint_config"), fx2) ELSE
    LET variants == sm_client.describe_endpoint_config.body.ProductionVariants IN
    IF Len(variants) = 0 THEN Raise(Exc("IndexError", "list index out of range"), fx2) ELSE
    LET model_name == variants[1].ModelName
        fx3 == Called(fx2, [op |-> "describe_model", args |-> <<model_name>>])
    IN
    IF ~sm_client.describe_model.ok THEN Raise(Exc("ClientError", "describe_model"), fx3) ELSE
    LET containers == sm_client.describe_model.body.Containers IN
    IF Len(containers) = 0 THEN Raise(Exc("IndexError", "list index out of range"), fx3) ELSE
    IF "ModelPackageName" \notin DOMAIN containers[1]
    THEN Raise(KeyError("ModelPackageName"), fx3) ELSE
    LET model_package_name == containers[1]["ModelPackageName"]
        fx4 == Called(fx3, [op |-> "describe_model_package", args |-> <<model_package_name>>])
    IN
    IF ~sm_client.describe_model_package.ok
    THEN Raise(Exc("ClientError", "describe_model_package"), fx4) ELSE
    IF "DriftCheckBaselines" \notin DOMAIN sm_client.describe_model_package.body
    THEN Raise(KeyError("DriftCheckBaselines"), fx4) ELSE
    LET raw_baselines == sm_client.describe_model_package.body["DriftCheckBaselines"] IN
    IF \E key \in DOMAIN raw_baselines : \E k \in DOMAIN raw_baselines[key] :
            "S3Uri" \notin DOMAIN raw_baselines[key][k]
    THEN Raise(KeyError("S3Uri"), fx4) ELSE
    Return([DriftCheckBaselines |->
                [key \in DOMAIN raw_baselines |->
                    [k \in DOMAIN raw_baselines[key] |-> raw_baselines[key][k]["S3Uri"]]],
            ModelName |-> model_name], fx4)

\* sm_client holds the answers the service gives to the calls of this run
get_baselines_and_model_name_body(endpoint_name, sm_client, fx) ==
    \* 123
    LET fx1 == Called(fx, [op |-> "describe_endpoint", args |-> <<endpoint_name>>]) IN
    IF ~sm_client.describe_endpoint.ok THEN Raise(Exc("ClientError", "describe_endpoint"), fx1) ELSE
    LET endpoint_config_name == sm_client.describe_endpoint.body.EndpointConfigName
        \* 126-128
        fx2 == Called(fx1, [op |-> "describe_endpoint_config", args |-> <<endpoint_config_name>>])
    IN
    IF ~sm_client.describe_endpoint_config.ok
    THEN Raise(Exc("ClientError", "describe_endpoint_config"), fx2) ELSE
    LET variants == sm_client.describe_endpoint_config.body.ProductionVariants IN
    IF Len(variants) = 0 THEN Raise(Exc("IndexError", "list index out of range"), fx2) ELSE
    LET model_name == variants[1].ModelName
        \* 131
        fx3 == Called(fx2, [op |-> "describe_model", args |-> <<model_name>>])
    IN
    IF ~sm_client.describe_model.ok THEN Raise(Exc("ClientError", "describe_model"), fx3) ELSE
    LET containers == sm_client.describe_model.body.Containers IN
    IF Len(containers) = 0 THEN Raise(Exc("IndexError", "list index out of range"), fx3) ELSE
    IF "ModelPackageName" \notin DOMAIN containers[1]
    THEN Raise(KeyError("ModelPackageName"), fx3) ELSE
    LET model_package_name == containers[1]["ModelPackageName"]
        \* 134
        fx4 == Called(fx3, [op |-> "describe_model_package", args |-> <<model_package_name>>])
    IN
    IF ~sm_client.describe_model_package.ok
    THEN Raise(Exc("ClientError", "describe_model_package"), fx4) ELSE
    LET raw_baselines ==
            DictGet(sm_client.describe_model_package.body, "DriftCheckBaselines", EmptyDict)
    IN
    \* 137
    IF \E key \in DOMAIN raw_baselines : \E k \in DOMAIN raw_baselines[key] :
            "S3Uri" \notin DOMAIN raw_baselines[key][k]
    THEN Raise(KeyError("S3Uri"), fx4) ELSE
    \* 139
    Return([DriftCheckBaselines |->
                [key \in DOMAIN raw_baselines |->
                    [k \in DOMAIN raw_baselines[key] |-> raw_baselines[key][k]["S3Uri"]]],
            ModelName |-> model_name], fx4)

get_baselines_and_model_name(endpoint_name, sm_client, fx) ==
    exception_handler("get_baselines_and_model_name",
                      get_baselines_and_model_name_body(endpoint_name, sm_client, fx))

---------------------------------------------------------------------------
(* Config extender: src/utils.py 48-107, 258-346 *)

\* a logger.error line that names no function
Plain(text) == [fn |-> text, msg |-> NoExc]

\* sagemaker.image_uris.retrieve(framework, region); image_uris holds the
\* lookup's answer for each framework
get_built_in_model_monitor_image_uri_body(region, framework, image_uris, fx) ==
    IF ~image_uris[framework].ok THEN Raise(Exc("ValueError", framework), fx)
    ELSE Return(image_uris[framework].body, fx)

get_built_in_model_monitor_image_uri(region, framework, image_uris, fx) ==
    exception_handler("get_built_in_model_monitor_image_uri",
        get_built_in_model_monitor_image_uri_body(region, framework, image_uris, fx))

\* try: return sm_client.list_tags(ResourceArn=arn)["Tags"]
\* except: logger.error("Error getting project tags")
\* return []
get_project_tags(sm_client, sagemaker_project_arn, fx) ==
    LET fx1 == Called(fx, [op |-> "list_tags", args |-> <<sagemaker_project_arn>>]) IN
    IF ~sm_client.list_tags.ok \/ "Tags" \notin DOMAIN sm_client.list_tags.body
    THEN Return(<<>>, Logged(fx1, Plain("Error getting project tags")))
    ELSE Return(sm_client.list_tags.body["Tags"], fx1)

\* {kv["Key"]: kv["Value"] for kv in project_tags_list}: a later entry of
\* the list replaces an earlier one with the same key
RECURSIVE TagsDict(_)
TagsDict(project_tags_list) ==
    IF Len(project_tags_list) = 0 THEN EmptyDict
    ELSE LET kv == project_tags_list[Len(project_tags_list)] IN
         Overlay(TagsDict(AllButLast(project_tags_list)),
                 [k \in {kv["Key"]} |-> kv["Value"]])

\* combine_resource_tags with the computed tags over the project tags
combine_resource_tags_newwins(new_tags, project_tags_list, fx) ==
    IF \E i \in 1..Len(project_tags_list) :
            ~({"Key", "Value"} \subseteq DOMAIN project_tags_list[i])
    THEN Return(EmptyDict, Logged(fx, Plain("Error getting resource tags")))
    ELSE Return(Overlay(TagsDict(project_tags_list), new_tags), fx)

\* combine_resource_tags letting the failure of the comprehension out
combine_resource_tags_raising(new_tags, project_tags_list, fx) ==
    IF \E i \in 1..Len(project_tags_list) :
            ~({"Key", "Value"} \subseteq DOMAIN project_tags_list[i])
    THEN Raise(KeyError("Value"), fx)
    ELSE Return(Overlay(new_tags, TagsDict(project_tags_list)), fx)

\* try: return {**new_tags, **project_tags_dict}
\* except: logger.error("Error getting resource tags")
\* return {}
\* the comprehension raises KeyError on an entry without "Key" or "Value"
combine_resource_tags(new_tags, project_tags_list, fx) ==
    IF \E i \in 1..Len(project_tags_list) :
            ~({"Key", "Value"} \subseteq DOMAIN project_tags_list[i])
    THEN Return(EmptyDict, Logged(fx, Plain("Error getting resource tags")))
    ELSE Return(Overlay(new_tags, TagsDict(project_tags_list)), fx)

\* f"s3://{monitor_outputs_bucket}/monitor-output/{category}"
MonitorOutputUri(monitor_outputs_bucket, category) ==
    S3Scheme \o monitor_outputs_bucket \o <<"/", "monitor-output", "/", category>>

\* stage_config["Parameters"].get(key, baselines.get(category, {}).get(kind, ""))
BaselineParam(stage_config, baselines, key, category, kind) ==
    DictGet(stage_config["Parameters"], key,
            DictGet(DictGet(baselines, category, EmptyDict), kind, <<>>))

\* 294-328
new_params(args, monitor_image_uri, clarify_image_uri, baselines, monitor_outputs_bucket, stage_config, endpoint_name, monitoring_schedule_name) ==
    [SageMakerProjectName |-> args.sagemaker_project_name,
     ModelMonitorRoleArn |-> args.model_monitor_role,
     MonitoringScheduleName |-> monitoring_schedule_name,
     EndpointName |-> endpoint_name,
     DataQualityConstraintsS3Uri |->
        BaselineParam(stage_config, baselines, "DataQualityConstraintsS3Uri",
                      "ModelDataQuality", "Constraints"),
     DataQualityStatisticsS3Uri |->
        BaselineParam(stage_config, baselines, "DataQualityStatisticsS3Uri",
                      "ModelDataQuality", "Statistics"),
     ModelQualityConstraintsS3Uri |->
        BaselineParam(stage_config, baselines, "ModelQualityConstraintsS3Uri",
                      "ModelQuality", "Constraints"),
     ModelBiasConstraintsS3Uri |->
        BaselineParam(stage_config, baselines, "ModelBiasConstraintsS3Uri",
                      "Bias", "Constraints"),
     ModelBiasConfigS3Uri |->
        BaselineParam(stage_config, baselines, "ModelBiasConfigS3Uri",
                      "Bias", "ConfigFile"),
     ModelExplainabilityConstraintsS3Uri |->
        BaselineParam(stage_config, baselines, "ModelExplainabilityConstraintsS3Uri",
                      "Explainability", "Constraints"),
     ModelExplainabilityConfigS3Uri |->
        BaselineParam(stage_config, baselines, "ModelExplainabilityConfigS3Uri",
                      "Explainability", "ConfigFile"),
     ModelMonitorImageUri |-> monitor_image_uri,
     ClarifyImageUri |-> clarify_image_uri,
     DataQualityMonitoringOutputS3Uri |->
        MonitorOutputUri(monitor_outputs_bucket, "data-quality"),
     ModelQualityMonitoringOutputS3Uri |->
        MonitorOutputUri(monitor_outputs_bucket, "model-quality"),
     ModelBiasMonitoringOutputS3Uri |->
        MonitorOutputUri(monitor_outputs_bucket, "model-bias"),
     ModelExplainabilityMonitoringOutputS3Uri |->
        MonitorOutputUri(monitor_outputs_bucket, "model-explainability")]

\* 331-335
new_tags(args, stage_config) ==
    [k \in {"sagemaker:deployment-stage", "sagemaker:project-id", "sagemaker:project-name"} |->
        CASE k = "sagemaker:deployment-stage" -> stage_config["Parameters"]["StageName"]
          [] k = "sagemaker:project-id" -> args.sagemaker_project_id
          [] k = "sagemaker:project-name" -> args.sagemaker_project_name]

\* the return statement with the template's entries over the computed ones
ExtendedConfig_templatewins(stage_config, params, combined_tags) ==
    [Parameters |-> Overlay(params, stage_config["Parameters"]),
     Tags |-> Overlay(combined_tags, DictGet(stage_config, "Tags", EmptyDict))]

\* 343-346: {"Parameters": {**stage_config["Parameters"], **new_params},
\*           "Tags": {**stage_config.get("Tags", {}), **combined_tags}}
ExtendedConfig(stage_config, params, combined_tags) ==
    [Parameters |-> Overlay(stage_config["Parameters"], params),
     Tags |-> Overlay(DictGet(stage_config, "Tags", EmptyDict), combined_tags)]

\* extend_config listing the project tags before it looks for StageName
extend_config_body_tags_first(args, monitor_image_uri, clarify_image_uri, baselines, monitor_outputs_bucket, stage_config, sm_client, fx) ==
    LET project_tags == get_project_tags(sm_client, args.sagemaker_project_arn, fx) IN
    IF ~project_tags.ok THEN project_tags ELSE
    IF "Parameters" \notin DOMAIN stage_config
       \/ "StageName" \notin DOMAIN stage_config["Parameters"]
    THEN Raise(Exc("ValueError", "Configuration file must include SageName parameter"),
               project_tags.fx)
    ELSE
    LET endpoint_name ==
            args.sagemaker_project_name \o <<"-">> \o stage_config["Parameters"]["StageName"]
        params == new_params(args, monitor_image_uri, clarify_image_uri, baselines,
                             monitor_outputs_bucket, stage_config, endpoint_name, endpoint_name)
        combined_tags == combine_resource_tags(new_tags(args, stage_config),
                                               project_tags.val, project_tags.fx)
    IN
    IF ~combined_tags.ok THEN combined_tags ELSE
    Return(ExtendedConfig(stage_config, params, combined_tags.val), combined_tags.fx)

extend_config_body(args, monitor_image_uri, clarify_image_uri, baselines, monitor_outputs_bucket, stage_config, sm_client, fx) ==
    \* 284-287
    IF "Parameters" \notin DOMAIN stage_config
       \/ "StageName" \notin DOMAIN stage_config["Parameters"]
    THEN Raise(Exc("ValueError", "Configuration file must include SageName parameter"), fx)
    ELSE
    \* 290-291
    LET endpoint_name ==
            args.sagemaker_project_name \o <<"-">> \o stage_config["Parameters"]["StageName"]
        monitoring_schedule_name == endpoint_name
        params == new_params(args, monitor_image_uri, clarify_image_uri, baselines,
                             monitor_outputs_bucket, stage_config, endpoint_name,
                             monitoring_schedule_name)
        \* 338
        project_tags == get_project_tags(sm_client, args.sagemaker_project_arn, fx)
    IN
    IF ~project_tags.ok THEN project_tags ELSE
    \* 341
    LET combined_tags == combine_resource_tags(new_tags(args, stage_config),
                                               project_tags.val, project_tags.fx) IN
    IF ~combined_tags.ok THEN combined_tags ELSE
    Return(ExtendedConfig(stage_config, params, combined_tags.val), combined_tags.fx)

extend_config(args, monitor_image_uri, clarify_image_uri, baselines, monitor_outputs_bucket, stage_config, sm_client, fx) ==
    exception_handler("extend_config",
        extend_config_body(args, monitor_image_uri, clarify_image_uri, baselines,
                           monitor_outputs_bucket, stage_config, sm_client, fx))

---------------------------------------------------------------------------
(* Template files: src/utils.py 349-375 *)

\* json.load(open(file_name)); fs maps a readable file's name to its content
read_config_from_json_body(file_name, fs, fx) ==
    IF file_name \notin DOMAIN fs THEN Raise(Exc("FileNotFoundError", file_name), fx)
    ELSE Return(fs[file_name], fx)

read_config_from_json(file_name, fs, fx) ==
    exception_handler("read_config_from_json", read_config_from_json_body(file_name, fs, fx))

\* json.dump(export_config, open(file_name, "w"), indent=4); val is the
\* file system after the call
write_config_to_json_body(file_name, export_config, writable, fs, fx) ==
    IF ~writable THEN Raise(Exc("PermissionError", file_name), fx)
    ELSE Return([f \in DOMAIN fs \cup {file_name} |->
                    IF f = file_name THEN export_config ELSE fs[f]], fx)

write_config_to_json(file_name, export_config, writable, fs, fx) ==
    exception_handler("write_config_to_json",
                      write_config_to_json_body(file_name, export_config, writable, fs, fx))

---------------------------------------------------------------------------
(* Inputs of the post-processor *)

Absent == <<"<absent>">>

\* a record's entries but the Absent ones, as a dict
DictOf(rec) == [k \in {x \in DOMAIN rec : rec[x] # Absent} |-> rec[k]]

Buckets == {<<"b1">>, <<"b2">>}

\* n directories "d/"
RECURSIVE Dirs(_)
Dirs(n) == IF n = 0 THEN <<>> ELSE <<"d", "/">> \o Dirs(n - 1)

\* key paths of 1..MaxKeySegments segments ending in one of the file names
KeysOf(names) == {Dirs(n) \o <<f>> : n \in 0..(MaxKeySegments - 1), f \in names}

\* a string with no scheme separator
NoSchemeUri == <<"b1", "/", "f.json">>

UrisOf(names) == {S3Uri(b, k) : b \in Buckets, k \in KeysOf(names)} \cup {NoSchemeUri}

\* the container and the key of a URI "s3://container/key", read off by position
UriBucket(uri) == <<uri[4]>>
UriKey(uri) == SubSeq(uri, 6, Len(uri))
WellFormedUri(uri) ==
    /\ Len(uri) >= 6
    /\ SubSeq(uri, 1, 3) = S3Scheme
    /\ uri[4] # "/"
    /\ uri[5] = "/"
UriLoc(uri) == <<UriBucket(uri), UriKey(uri)>>

\* the objects the given URIs name
LocsOf(uris) == {UriLoc(u) : u \in {x \in uris : x # Absent /\ WellFormedUri(x)}}

\* JSON objects with top-level keys among "a", "b", every value v
FlatDocs(v) == {[k \in D |-> v] : D \in SUBSET {"a", "b"}}
Bodies(docs) == {json_dumps(d) : d \in docs} \cup {NotJson}

\* predictor sections, and analysis-config documents with or without one
Predictors ==
    UNION {[D -> {"v"}] : D \in SUBSET {"x", "model_name"}}
ConfigDocs ==
    {Overlay(a, p) :
        a \in {EmptyDict, [k \in {"a"} |-> "v"]},
        p \in {EmptyDict} \cup {[k \in {"predictor"} |-> q] : q \in Predictors}}

ModelNames == {"m1", "m2"}

\* stores holding some of the objects at locs, each a body of bodies
StoresOver(locs, bodies) == UNION {[D -> bodies] : D \in SUBSET locs}

BiasFileNames == {"f.json", "combined_bias_constraints.json"}
ExplFileNames == {"f.json", "monitor_analysis_config.json"}

BiasInputs ==
    {DictOf([PreTrainingConstraints |-> pre, PostTrainingConstraints |-> post,
             ConfigFile |-> cfg]) :
        pre \in UrisOf(BiasFileNames) \cup {Absent},
        post \in UrisOf(BiasFileNames) \cup {Absent},
        cfg \in {Absent, S3Uri(<<"b1">>, <<"cfg.json">>)}}

\* stores for a bias input: the pre-training object's values are 1, the
\* post-training object's values are 2
BiasStores(bb) ==
    {Overlay(s1, s2) :
        s1 \in StoresOver(LocsOf({DictGet(bb, "PreTrainingConstraints", Absent)}),
                          Bodies(FlatDocs(1))),
        s2 \in StoresOver(LocsOf({DictGet(bb, "PostTrainingConstraints", Absent)}),
                          Bodies(FlatDocs(2)))}

ExplStores(eb) ==
    StoresOver(LocsOf({DictGet(eb, "ConfigFile", Absent)}), Bodies(ConfigDocs))

ExplInputs ==
    {DictOf([ConfigFile |-> cfg, Constraints |-> con]) :
        cfg \in UrisOf(ExplFileNames) \cup {Absent},
        con \in {Absent, S3Uri(<<"b1">>, <<"con.json">>)}}

NoMain == EmptyDict
NoOut == [ok |-> FALSE, val |-> None, err |-> NoExc]
Outcome(r) == [ok |-> r.ok, val |-> r.val, err |-> r.err]

---------------------------------------------------------------------------
(* Inputs of the extender *)

Args ==
    [sagemaker_project_name |-> <<"proj">>,
     sagemaker_project_id |-> <<"p-1">>,
     sagemaker_project_arn |-> <<"arn:project">>,
     model_monitor_role |-> <<"arn:role">>,
     monitor_outputs_bucket |-> <<"outputs">>,
     import_staging_config |-> "staging-monitoring-schedule-config.json",
     import_prod_config |-> "prod-monitoring-schedule-config.json",
     export_staging_config |-> "staging-monitoring-schedule-config-export.json",
     export_prod_config |-> "prod-monitoring-schedule-config-export.json"]

MonitorImage == <<"img-model-monitor">>
ClarifyImage == <<"img-clarify">>

\* the baseline-derived parameters and the category and kind each comes from
BaselineSource ==
    [DataQualityConstraintsS3Uri |-> <<"ModelDataQuality", "Constraints">>,
     DataQualityStatisticsS3Uri |-> <<"ModelDataQuality", "Statistics">>,
     ModelQualityConstraintsS3Uri |-> <<"ModelQuality", "Constraints">>,
     ModelBiasConstraintsS3Uri |-> <<"Bias", "Constraints">>,
     ModelBiasConfigS3Uri |-> <<"Bias", "ConfigFile">>,
     ModelExplainabilityConstraintsS3Uri |-> <<"Explainability", "Constraints">>,
     ModelExplainabilityConfigS3Uri |-> <<"Explainability", "ConfigFile">>]
BaselineKeys == DOMAIN BaselineSource

FixedKeys ==
    {"SageMakerProjectName", "ModelMonitorRoleArn", "MonitoringScheduleName", "EndpointName",
     "ModelMonitorImageUri", "ClarifyImageUri", "DataQualityMonitoringOutputS3Uri",
     "ModelQualityMonitoringOutputS3Uri", "ModelBiasMonitoringOutputS3Uri",
     "ModelExplainabilityMonitoringOutputS3Uri"}

\* subsets of S of at most n elements
RECURSIVE SubsetsUpTo(_, _)
SubsetsUpTo(S, n) ==
    IF n = 0 THEN {{}}
    ELSE LET smaller == SubsetsUpTo(S, n - 1) IN
         smaller \cup {p \cup {x} : p \in smaller, x \in S}

\* template Parameters: StageName and at most MaxTemplateExtras other keys,
\* each with a value no computation yields; or no StageName
TemplateParams(stage) ==
    {[k \in D \cup {"StageName"} |-> IF k = "StageName" THEN stage ELSE <<"template">>] :
        D \in SubsetsUpTo(BaselineKeys \cup FixedKeys \cup {"Custom"}, MaxTemplateExtras)}
    \cup {[k \in {"Custom"} |-> <<"template">>]}

TemplateTags ==
    UNION {[D -> {<<"template">>}] : D \in SUBSET {"sagemaker:project-id", "owner"}}

\* stage configs: with or without "Parameters", with or without "Tags"
Templates(stage) ==
    {[k \in {"Parameters", "Tags"} |-> IF k = "Parameters" THEN p ELSE t] :
        p \in TemplateParams(stage), t \in TemplateTags}
    \cup {[k \in {"Parameters"} |-> p] : p \in TemplateParams(stage)}
    \cup {[k \in {"Tags"} |-> EmptyDict]}

Categories == {"Bias", "Explainability", "ModelQuality", "ModelDataQuality"}

\* baselines handed to extend_config: no category, every category empty,
\* every category with the kinds the extender reads
FullBaselines ==
    [c \in Categories |->
        [k \in {x[2] : x \in {BaselineSource[p] : p \in {q \in BaselineKeys :
                                                        BaselineSource[q][1] = c}}} |->
            S3Uri(<<"b1">>, <<c, "/", k>>)]]
BaselineSets == {EmptyDict, [c \in Categories |-> EmptyDict], FullBaselines}

\* entries of a project tag list; the last lacks "Value"
TagEntries ==
    {[Key |-> "env", Value |-> <<"dev">>],
     [Key |-> "sagemaker:project-id", Value |-> <<"project">>],
     [Key |-> "broken"]}

RECURSIVE SeqsUpTo(_, _)
SeqsUpTo(S, n) ==
    IF n = 0 THEN {<<>>}
    ELSE LET shorter == SeqsUpTo(S, n - 1) IN
         shorter \cup {Append(q, x) : q \in shorter, x \in S}

\* answers of list_tags: an error, a response without "Tags", a tag list
ListTagsResponses ==
    {ServiceError, Response(EmptyDict)}
    \cup {Response([Tags |-> l]) : l \in SeqsUpTo(TagEntries, MaxTagListLen)}

---------------------------------------------------------------------------
(* Inputs of the resolver *)

\* the artifact kinds a model package registers for each category
RegisteredKinds ==
    [c \in Categories |->
        CASE c = "Bias" -> {"PreTrainingConstraints", "PostTrainingConstraints", "ConfigFile"}
          [] c = "Explainability" -> {"ConfigFile", "Constraints"}
          [] c = "ModelQuality" -> {"Constraints"}
          [] c = "ModelDataQuality" -> {"Constraints", "Statistics"}]

RegisteredUri(c, k) == S3Uri(<<"b1">>, <<c, "/", k>>)

Descriptor(uri) == [S3Uri |-> uri, ContentType |-> "application/json"]

\* descriptor sets: category -> kind -> descriptor
FullDescriptors ==
    [c \in Categories |-> [k \in RegisteredKinds[c] |-> Descriptor(RegisteredUri(c, k))]]

\* the full set with at most one omission: a category missing, a category
\* with no entries, a kind missing; the empty set; a descriptor without S3Uri
DescriptorSets ==
    {FullDescriptors, EmptyDict}
    \cup {[c \in Categories \ {x} |-> FullDescriptors[c]] : x \in Categories}
    \cup {[FullDescriptors EXCEPT ![x] = EmptyDict] : x \in Categories}
    \cup UNION {{[FullDescriptors EXCEPT ![x] = [k \in RegisteredKinds[x] \ {y} |-> @[k]]] :
                    y \in RegisteredKinds[x]} : x \in Categories}
    \cup {[FullDescriptors EXCEPT !["ModelQuality"] =
                [k \in {"Constraints"} |-> [ContentType |-> "application/json"]]]}

DescribeEndpointResponses ==
    {ServiceError, Response([EndpointConfigName |-> "endpoint-config"])}
DescribeEndpointConfigResponses ==
    {ServiceError, Response([ProductionVariants |-> <<>>])}
    \cup {Response([ProductionVariants |-> <<[ModelName |-> m]>>]) : m \in ModelNames}
    \cup {Response([ProductionVariants |-> <<[ModelName |-> "m1"], [ModelName |-> "m2"]>>])}
DescribeModelResponses ==
    {ServiceError, Response([Containers |-> <<>>]),
     Response([Containers |-> <<[Image |-> "image"]>>]),
     Response([Containers |-> <<[ModelPackageName |-> "package"]>>])}
DescribeModelPackageResponses ==
    {ServiceError, Response([ModelPackageName |-> "package"])}
    \cup {Response([ModelPackageName |-> "package", DriftCheckBaselines |-> d]) :
            d \in DescriptorSets}

---------------------------------------------------------------------------
(* SpecParse: get_bucket_name_and_file_key applied once to a string       *)

\* the longest string given to the parser, in tokens
MaxUriTokens == 8

\* a string is a sequence of tokens: "/" is one character, every other
\* token a run of characters without "/"; two such runs are never adjacent
UriTokens == {"s3:", "/", "b1", "f.json"}
Tokenised(u) == \A i \in 1..(Len(u) - 1) : u[i] = "/" \/ u[i + 1] = "/"
ParseInputs ==
    {u \in UNION {[1..n -> UriTokens] : n \in 0..MaxUriTokens} : Tokenised(u)}

InitParse ==
    /\ pc = "call"
    /\ inp \in {[fn |-> "get_bucket_name_and_file_key", file_s3_uri |-> u] : u \in ParseInputs}
    /\ store = EmptyDict
    /\ calls = <<>>
    /\ log = <<>>
    /\ out = NoOut
    /\ mainv = NoMain
    /\ files = EmptyDict
    /\ raised = NoExc

ParseStep ==
    /\ pc = "call"
    /\ inp.fn = "get_bucket_name_and_file_key"
    /\ LET r == get_bucket_name_and_file_key(inp.file_s3_uri, Fx(store, calls, log)) IN
        /\ out' = Outcome(r)
        /\ store' = r.fx.store
        /\ calls' = r.fx.calls
        /\ log' = r.fx.log
    /\ pc' = "done"
    /\ UNCHANGED <<inp, mainv, files, raised>>

NextParse == ParseStep

SpecParse == InitParse /\ [][NextParse]_vars

---------------------------------------------------------------------------
(* Claims about the parser, checked under SpecParse *)

ParseDone == pc = "done" /\ inp.fn = "get_bucket_name_and_file_key"

\* "://" occurs in the string: only the token "s3:" ends in a colon
HasSchemeSeparator(u) ==
    \E i \in 1..(Len(u) - 2) : u[i] = "s3:" /\ u[i + 1] = "/" /\ u[i + 2] = "/"
\* "//" occurs in the string
HasDoubleSlash(u) == \E i \in 1..(Len(u) - 1) : u[i] = "/" /\ u[i + 1] = "/"

\* the parser returned the container and the key of the URI, and they
\* reassemble to the URI
RoundTrips(u) ==
    /\ out.ok
    /\ out.val = <<UriBucket(u), UriKey(u)>>
    /\ S3Uri(out.val[1], out.val[2]) = u

\* C11: for every well-formed URI s3://container/key with a non-empty key
\* path, get_bucket_name_and_file_key returns (container, key), which
\* reassembled as "s3://" + container + "/" + key is the URI; for a string
\* without the scheme separator "://" it raises instead of returning a pair.
C11_ParseRoundTrip ==
    ParseDone =>
        LET u == inp.file_s3_uri IN
        /\ WellFormedUri(u) => RoundTrips(u)
        /\ ~HasSchemeSeparator(u) => ~out.ok

\* the URI after its scheme: container "/" key
AfterScheme(u) == SubSeq(u, 4, Len(u))

\* C11 where the code agrees with it: a well-formed URI with no "//" after
\* the scheme (its key neither starts with "/" nor holds "//") round-trips,
\* and a string without "//" raises IndexError
C11_KeysWithoutDoubleSlash ==
    ParseDone =>
        LET u == inp.file_s3_uri IN
        /\ (WellFormedUri(u) /\ ~HasDoubleSlash(AfterScheme(u))) => RoundTrips(u)
        /\ ~HasDoubleSlash(u) =>
                (~out.ok /\ out.err = Exc("IndexError", "list index out of range"))

\* a well-formed URI with "//" after the scheme is cut at it: the pair
\* returned is not the URI's
C11_DoubleSlashInKey ==
    /\ ParseDone
    /\ WellFormedUri(inp.file_s3_uri)
    /\ HasDoubleSlash(AfterScheme(inp.file_s3_uri))
    /\ out.ok
    /\ out.val # <<UriBucket(inp.file_s3_uri), UriKey(inp.file_s3_uri)>>

\* a string with "//" and without "://" is given a pair
C11_PairWithoutScheme ==
    /\ ParseDone
    /\ ~HasSchemeSeparator(inp.file_s3_uri)
    /\ out.ok

---------------------------------------------------------------------------
(* SpecPost: the two post-processor transforms, each applied once to      *)
(* inputs drawn from the sets above                                        *)

InitPost ==
    /\ pc = "call"
    /\ \/ \E bb \in BiasInputs, ok \in BOOLEAN :
            /\ store \in BiasStores(bb)
            /\ inp = [fn |-> "process_bias_baselines", bias_baselines |-> bb,
                      s3_client |-> [put_ok |-> ok], store |-> store]
       \/ \E eb \in ExplInputs, m \in ModelNames, ok \in BOOLEAN :
            /\ store \in ExplStores(eb)
            /\ inp = [fn |-> "process_explainability_config_file",
                      explainability_baselines |-> eb, model_name |-> m,
                      s3_client |-> [put_ok |-> ok], store |-> store]
    /\ calls = <<>>
    /\ log = <<>>
    /\ out = NoOut
    /\ mainv = NoMain
    /\ files = EmptyDict
    /\ raised = NoExc

BiasStep ==
    /\ pc = "call"
    /\ inp.fn = "process_bias_baselines"
    /\ LET r == process_bias_baselines(inp.bias_baselines, inp.s3_client,
                                       Fx(store, calls, log)) IN
        /\ out' = Outcome(r)
        /\ store' = r.fx.store
        /\ calls' = r.fx.calls
        /\ log' = r.fx.log
    /\ pc' = "done"
    /\ UNCHANGED <<inp, mainv, files, raised>>

ExplStep ==
    /\ pc = "call"
    /\ inp.fn = "process_explainability_config_file"
    /\ LET r == process_explainability_config_file(inp.explainability_baselines,
                    inp.model_name, inp.s3_client, Fx(store, calls, log)) IN
        /\ out' = Outcome(r)
        /\ store' = r.fx.store
        /\ calls' = r.fx.calls
        /\ log' = r.fx.log
    /\ pc' = "done"
    /\ UNCHANGED <<inp, mainv, files, raised>>

NextPost == BiasStep \/ ExplStep

SpecPost == InitPost /\ [][NextPost]_vars

---------------------------------------------------------------------------
(* Claims about the post-processor, checked under SpecPost *)

\* key with its final path segment replaced by name
ReplaceLastSegment(key, name) ==
    Join(Slash, AllButLast(Split(key, Slash)) \o <<<<name>>>>)

\* the put_object calls issued
Puts == {i \in 1..Len(calls) : calls[i].op = "put_object"}
PutLoc(i) == calls[i].args

BiasDone == pc = "done" /\ inp.fn = "process_bias_baselines"
ExplDone == pc = "done" /\ inp.fn = "process_explainability_config_file"

\* the document a well-formed URI names in the store the transform was called on
DocAt(uri) == inp.store[UriLoc(uri)].doc
Readable(uri) ==
    /\ WellFormedUri(uri)
    /\ UriLoc(uri) \in DOMAIN inp.store
    /\ inp.store[UriLoc(uri)].kind = "json"

\* the union of the top-level keys, post-training values winning
MergedDoc(pre_doc, post_doc) ==
    [k \in DOMAIN pre_doc \cup DOMAIN post_doc |->
        IF k \in DOMAIN post_doc THEN post_doc[k] ELSE pre_doc[k]]

BiasMergeWritten(target) ==
    LET bb == inp.bias_baselines IN
    /\ \E i \in Puts : Puts = {i} /\ PutLoc(i) = target
    /\ target \in DOMAIN store
    /\ store[target] = json_dumps(MergedDoc(DocAt(bb["PreTrainingConstraints"]),
                                            DocAt(bb["PostTrainingConstraints"])))
    /\ out.val = [ConfigFile |-> bb["ConfigFile"],
                  Constraints |-> S3Uri(target[1], target[2])]

\* C6: when process_bias_baselines returns, the one object it wrote holds
\* the union of the two documents' top-level keys with the post-training
\* values winning, lies in the post-training container at the post-training
\* key with its final segment replaced by combined_bias_constraints.json,
\* and the result is the unchanged ConfigFile plus the URI of that object.
C6_CombineBiasConstraints ==
    (BiasDone /\ out.ok) =>
        LET post == inp.bias_baselines["PostTrainingConstraints"] IN
        BiasMergeWritten(<<UriBucket(post),
                           ReplaceLastSegment(UriKey(post), "combined_bias_constraints.json")>>)

\* C6 for post-training keys of two segments or more, where the code's
\* f"{'/'.join(segments[:-1])}/combined_bias_constraints.json" is the
\* replacement of the final segment
C6_NestedKeys ==
    (BiasDone /\ out.ok) =>
        LET post == inp.bias_baselines["PostTrainingConstraints"] IN
        Len(Split(UriKey(post), Slash)) >= 2 =>
            BiasMergeWritten(<<UriBucket(post),
                               ReplaceLastSegment(UriKey(post), "combined_bias_constraints.json")>>)

\* C6 for a post-training key of one segment: the object is written at
\* "/combined_bias_constraints.json", a key of two segments, the first empty
C6_RootKeys ==
    (BiasDone /\ out.ok) =>
        LET post == inp.bias_baselines["PostTrainingConstraints"] IN
        Len(Split(UriKey(post), Slash)) = 1 =>
            BiasMergeWritten(<<UriBucket(post), <<"/", "combined_bias_constraints.json">>>>)

\* the input document with predictor.model_name set to model_name
Patched(doc, model_name) ==
    [k \in DOMAIN doc |->
        IF k # "predictor" THEN doc[k]
        ELSE [f \in DOMAIN doc[k] \cup {"model_name"} |->
                IF f = "model_name" THEN model_name ELSE doc[k][f]]]

\* C7: when the ConfigFile document has a top-level predictor object, the
\* document process_explainability_config_file writes is the input document
\* with predictor.model_name set to the model name and nothing else
\* changed; when the predictor key is absent it raises the missing-field
\* error (KeyError 'predictor') and writes nothing.
C7_PatchExplainabilityConfig ==
    (/\ ExplDone
     /\ "ConfigFile" \in DOMAIN inp.explainability_baselines
     /\ Readable(inp.explainability_baselines["ConfigFile"])) =>
        LET doc == DocAt(inp.explainability_baselines["ConfigFile"]) IN
        IF "predictor" \in DOMAIN doc
        THEN /\ \E i \in Puts : Puts = {i}
             /\ inp.s3_client.put_ok =>
                    \A i \in Puts :
                        /\ PutLoc(i) \in DOMAIN store
                        /\ store[PutLoc(i)] = json_dumps(Patched(doc, inp.model_name))
             /\ out.ok =>
                    /\ inp.s3_client.put_ok
                    /\ \A i \in Puts : out.val.ConfigFile = S3Uri(PutLoc(i)[1], PutLoc(i)[2])
        ELSE /\ ~out.ok
             /\ out.err = KeyError("predictor")
             /\ Puts = {}
             /\ store = inp.store

\* a run where a predictor section with an old model_name and another
\* field, next to another top-level key, was patched and written
C7_Witness ==
    /\ ExplDone
    /\ out.ok
    /\ LET doc == DocAt(inp.explainability_baselines["ConfigFile"]) IN
        /\ "a" \in DOMAIN doc
        /\ DOMAIN doc["predictor"] = {"x", "model_name"}

\* a run where the predictor key was absent and the transform raised
C7_WitnessMissing ==
    /\ ExplDone
    /\ out.err = KeyError("predictor")

PostDone == BiasDone \/ ExplDone

\* the keys each transform requires of its input mapping
RequiredKeys ==
    IF inp.fn = "process_bias_baselines"
    THEN {"PreTrainingConstraints", "PostTrainingConstraints", "ConfigFile"}
    ELSE {"ConfigFile", "Constraints"}

\* the transform raised the missing-field error for input key k
MissingInputKey(k) ==
    /\ PostDone
    /\ ~out.ok
    /\ k \notin DOMAIN (IF BiasDone THEN inp.bias_baselines ELSE inp.explainability_baselines)
    /\ out.err = KeyError(k)

\* C12: when a transform raises the missing-field error for one of its
\* required input keys, it has issued no write and the store is as it was
\* when the transform was called.
C12_MissingKeyLeavesStore ==
    \A k \in RequiredKeys :
        MissingInputKey(k) => (Puts = {} /\ store = inp.store)

\* the keys subscripted before the upload (utils.py 203, 206, 242)
KeysReadBeforeUpload ==
    IF inp.fn = "process_bias_baselines"
    THEN {"PreTrainingConstraints", "PostTrainingConstraints"}
    ELSE {"ConfigFile"}

\* C12 for the keys the code subscripts before its upload
C12_EarlyKeys ==
    \A k \in KeysReadBeforeUpload :
        MissingInputKey(k) => (Puts = {} /\ calls = <<>> /\ store = inp.store)

\* C12 for the keys the code subscripts in its return statement (utils.py
\* 220, 254): the error is raised after the one upload was issued
C12_LateKeys ==
    \A k \in RequiredKeys \ KeysReadBeforeUpload :
        MissingInputKey(k) =>
            \E i \in Puts :
                /\ Puts = {i}
                /\ PutLoc(i) \in DOMAIN store
                /\ store[PutLoc(i)].kind = "json"

\* process_bias_baselines raised KeyError('ConfigFile') having written the
\* combined object into a store that did not hold it
C12_WrittenBeforeMissingKey ==
    /\ BiasDone
    /\ MissingInputKey("ConfigFile")
    /\ store # inp.store
    /\ \E i \in Puts : PutLoc(i) \notin DOMAIN inp.store

\* the objects the transform read
Gets == {i \in 1..Len(calls) : calls[i].op = "get_object"}
ReadLocs == {calls[i].args : i \in Gets}

\* one object was written, at a key that was not read, and every object
\* read holds what it held when the transform was called
WroteBesideSources ==
    /\ \E i \in Puts : Puts = {i} /\ PutLoc(i) \notin ReadLocs
    /\ \A l \in ReadLocs : l \in DOMAIN store /\ store[l] = inp.store[l]

\* C13: a transform that returns has written exactly one object, at a key
\* different from every key it read, and every source object still holds
\* its original content, whatever the final path segments of the input
\* URIs.
C13_WritesNewKey ==
    (PostDone /\ out.ok) => WroteBesideSources

\* the final path segment of a well-formed URI
FinalSegment(uri) == uri[Len(uri)]
WrittenName ==
    IF inp.fn = "process_bias_baselines"
    THEN "combined_bias_constraints.json" ELSE "monitor_analysis_config.json"
SourceUris ==
    IF inp.fn = "process_bias_baselines"
    THEN {inp.bias_baselines["PreTrainingConstraints"],
          inp.bias_baselines["PostTrainingConstraints"]}
    ELSE {inp.explainability_baselines["ConfigFile"]}

\* C13 for source URIs none of which ends in the name the transform writes
C13_OtherNames ==
    (PostDone /\ out.ok /\ \A u \in SourceUris : FinalSegment(u) # WrittenName) =>
        WroteBesideSources

\* a transform returned having written over an object it read, which no
\* longer holds what it held
C13_SourceOverwritten ==
    /\ PostDone
    /\ out.ok
    /\ \E i \in Puts :
        /\ PutLoc(i) \in ReadLocs
        /\ store[PutLoc(i)] # inp.store[PutLoc(i)]

---------------------------------------------------------------------------
(* SpecResolver: get_baselines_and_model_name applied once to a registry  *)
(* whose answers are drawn from the sets above                            *)

InitResolver ==
    /\ pc = "call"
    /\ \E e \in DescribeEndpointResponses, c \in DescribeEndpointConfigResponses,
          m \in DescribeModelResponses, p \in DescribeModelPackageResponses :
        inp = [fn |-> "get_baselines_and_model_name",
               endpoint_name |-> Args.sagemaker_project_name \o <<"-", "staging">>,
               sm_client |-> [describe_endpoint |-> e, describe_endpoint_config |-> c,
                              describe_model |-> m, describe_model_package |-> p]]
    /\ store = EmptyDict
    /\ calls = <<>>
    /\ log = <<>>
    /\ out = NoOut
    /\ mainv = NoMain
    /\ files = EmptyDict
    /\ raised = NoExc

ResolveStep ==
    /\ pc = "call"
    /\ inp.fn = "get_baselines_and_model_name"
    /\ LET r == get_baselines_and_model_name(inp.endpoint_name, inp.sm_client,
                                             Fx(store, calls, log)) IN
        /\ out' = Outcome(r)
        /\ store' = r.fx.store
        /\ calls' = r.fx.calls
        /\ log' = r.fx.log
    /\ pc' = "done"
    /\ UNCHANGED <<inp, mainv, files, raised>>

NextResolver == ResolveStep

SpecResolver == InitResolver /\ [][NextResolver]_vars

---------------------------------------------------------------------------
(* Claims about the resolver, checked under SpecResolver *)

ResolverDone == pc = "done" /\ inp.fn = "get_baselines_and_model_name"

\* each of the four chained lookups returned a result
LookupsAnswered ==
    /\ inp.sm_client.describe_endpoint.ok
    /\ inp.sm_client.describe_endpoint_config.ok
    /\ Len(inp.sm_client.describe_endpoint_config.body.ProductionVariants) > 0
    /\ inp.sm_client.describe_model.ok
    /\ Len(inp.sm_client.describe_model.body.Containers) > 0
    /\ "ModelPackageName" \in DOMAIN inp.sm_client.describe_model.body.Containers[1]
    /\ inp.sm_client.describe_model_package.ok

\* the model package carries no baseline descriptor set, or an empty one
NoDescriptors ==
    \/ "DriftCheckBaselines" \notin DOMAIN inp.sm_client.describe_model_package.body
    \/ inp.sm_client.describe_model_package.body["DriftCheckBaselines"] = EmptyDict

\* C8 as claimed: the resolver raises whenever one of the four lookups
\* returns no result or the descriptor set is empty or absent; it returns
\* only for a non-empty descriptor set, and then a category with no entries
\* yields an empty mapping.
C8_ResolverFailsOnEmpty ==
    ResolverDone =>
        /\ ~LookupsAnswered => ~out.ok
        /\ (LookupsAnswered /\ NoDescriptors) => ~out.ok
        /\ out.ok =>
            \A c \in DOMAIN inp.sm_client.describe_model_package.body["DriftCheckBaselines"] :
                inp.sm_client.describe_model_package.body["DriftCheckBaselines"][c] = EmptyDict
                    => out.val.DriftCheckBaselines[c] = EmptyDict

\* C8 amended: the resolver raises whenever one of the four lookups returns
\* no result. For an empty or absent descriptor set it returns, with an
\* empty BaselineSet and the first production variant's model name. When it
\* returns, every category of the descriptor set is flattened to
\* kind -> URI, a category with no entries to an empty mapping.
C8_Resolver ==
    ResolverDone =>
        /\ ~LookupsAnswered => ~out.ok
        /\ (LookupsAnswered /\ NoDescriptors) =>
                /\ out.ok
                /\ out.val.DriftCheckBaselines = EmptyDict
                /\ out.val.ModelName =
                        inp.sm_client.describe_endpoint_config.body.ProductionVariants[1].ModelName
        /\ (out.ok /\ ~NoDescriptors) =>
            LET raw == inp.sm_client.describe_model_package.body["DriftCheckBaselines"] IN
            /\ DOMAIN out.val.DriftCheckBaselines = DOMAIN raw
            /\ \A c \in DOMAIN raw :
                /\ DOMAIN out.val.DriftCheckBaselines[c] = DOMAIN raw[c]
                /\ \A k \in DOMAIN raw[c] : out.val.DriftCheckBaselines[c][k] = raw[c][k]["S3Uri"]

\* the resolver returned for a model package without DriftCheckBaselines
C8_Witness ==
    /\ ResolverDone
    /\ out.ok
    /\ "DriftCheckBaselines" \notin DOMAIN inp.sm_client.describe_model_package.body


---------------------------------------------------------------------------
(* SpecExtend: extend_config applied once to inputs drawn from the sets   *)
(* above                                                                   *)

InitExtend ==
    /\ pc = "call"
    /\ \E t \in Templates(<<"staging">>), b \in BaselineSets, r \in ListTagsResponses :
        inp = [fn |-> "extend_config", args |-> Args,
               monitor_image_uri |-> MonitorImage, clarify_image_uri |-> ClarifyImage,
               baselines |-> b, monitor_outputs_bucket |-> Args.monitor_outputs_bucket,
               stage_config |-> t, sm_client |-> [list_tags |-> r]]
    /\ store = EmptyDict
    /\ calls = <<>>
    /\ log = <<>>
    /\ out = NoOut
    /\ mainv = NoMain
    /\ files = EmptyDict
    /\ raised = NoExc

ExtendStep ==
    /\ pc = "call"
    /\ inp.fn = "extend_config"
    /\ LET r == extend_config(inp.args, inp.monitor_image_uri, inp.clarify_image_uri,
                              inp.baselines, inp.monitor_outputs_bucket, inp.stage_config,
                              inp.sm_client, Fx(store, calls, log)) IN
        /\ out' = Outcome(r)
        /\ store' = r.fx.store
        /\ calls' = r.fx.calls
        /\ log' = r.fx.log
    /\ pc' = "done"
    /\ UNCHANGED <<inp, mainv, files, raised>>

NextExtend == ExtendStep

SpecExtend == InitExtend /\ [][NextExtend]_vars


---------------------------------------------------------------------------
(* Claims about the extender, checked under SpecExtend *)

ExtendDone == pc = "done" /\ inp.fn = "extend_config"

HasStageName(stage_config) ==
    /\ "Parameters" \in DOMAIN stage_config
    /\ "StageName" \in DOMAIN stage_config["Parameters"]

\* what the claim gives for a computed parameter that is not baseline-derived
FixedValue(k, stage_name) ==
    CASE k = "SageMakerProjectName" -> inp.args.sagemaker_project_name
      [] k = "ModelMonitorRoleArn" -> inp.args.model_monitor_role
      [] k \in {"MonitoringScheduleName", "EndpointName"} ->
            inp.args.sagemaker_project_name \o <<"-">> \o stage_name
      [] k = "ModelMonitorImageUri" -> inp.monitor_image_uri
      [] k = "ClarifyImageUri" -> inp.clarify_image_uri
      [] k = "DataQualityMonitoringOutputS3Uri" ->
            S3Scheme \o inp.monitor_outputs_bucket \o <<"/", "monitor-output", "/", "data-quality">>
      [] k = "ModelQualityMonitoringOutputS3Uri" ->
            S3Scheme \o inp.monitor_outputs_bucket \o <<"/", "monitor-output", "/", "model-quality">>
      [] k = "ModelBiasMonitoringOutputS3Uri" ->
            S3Scheme \o inp.monitor_outputs_bucket \o <<"/", "monitor-output", "/", "model-bias">>
      [] k = "ModelExplainabilityMonitoringOutputS3Uri" ->
            S3Scheme \o inp.monitor_outputs_bucket
                \o <<"/", "monitor-output", "/", "model-explainability">>

\* what the claim gives for a baseline-derived parameter
BaselineValue(k, template_params, baselines) ==
    LET category == BaselineSource[k][1]
        kind == BaselineSource[k][2]
    IN  IF k \in DOMAIN template_params THEN template_params[k]
        ELSE IF category \in DOMAIN baselines /\ kind \in DOMAIN baselines[category]
             THEN baselines[category][kind]
        ELSE <<>>

\* C2: every key of the output Parameters of extend_config has the value
\* the precedence rules give it: a baseline-derived URI is the template's
\* value if the template defines the key, else the BaselineSet value, else
\* ""; any other computed parameter is the computed value whatever the
\* template holds; any other template key keeps its template value.
C2_ParameterPrecedence ==
    (ExtendDone /\ out.ok) =>
        LET tp == inp.stage_config["Parameters"]
            op == out.val["Parameters"]
        IN  /\ DOMAIN op = DOMAIN tp \cup BaselineKeys \cup FixedKeys
            /\ \A k \in DOMAIN op :
                op[k] = IF k \in BaselineKeys THEN BaselineValue(k, tp, inp.baselines)
                        ELSE IF k \in FixedKeys THEN FixedValue(k, tp["StageName"])
                        ELSE tp[k]

\* extend_config returned for a template that defines a baseline-derived
\* key for which the BaselineSet has a value too
C2_Witness ==
    /\ ExtendDone
    /\ out.ok
    /\ "DataQualityConstraintsS3Uri" \in DOMAIN inp.stage_config["Parameters"]
    /\ "ModelDataQuality" \in DOMAIN inp.baselines
    /\ "Constraints" \in DOMAIN inp.baselines["ModelDataQuality"]

\* the tag service returned a list of key/value pairs
TagListReturned ==
    /\ inp.sm_client.list_tags.ok
    /\ "Tags" \in DOMAIN inp.sm_client.list_tags.body
WellFormedTagList ==
    /\ TagListReturned
    /\ \A i \in 1..Len(inp.sm_client.list_tags.body["Tags"]) :
            {"Key", "Value"} \subseteq DOMAIN inp.sm_client.list_tags.body["Tags"][i]

ComputedTags ==
    [k \in {"sagemaker:deployment-stage", "sagemaker:project-id", "sagemaker:project-name"} |->
        CASE k = "sagemaker:deployment-stage" -> inp.stage_config["Parameters"]["StageName"]
          [] k = "sagemaker:project-id" -> inp.args.sagemaker_project_id
          [] k = "sagemaker:project-name" -> inp.args.sagemaker_project_name]

TemplateTagsOf(stage_config) ==
    IF "Tags" \in DOMAIN stage_config THEN stage_config["Tags"] ELSE EmptyDict

\* the three tag sources laid over one another, the later over the earlier
ThreeWay(template_tags, computed_tags, tag_list) ==
    LET listed == {tag_list[i]["Key"] : i \in 1..Len(tag_list)} IN
    [k \in DOMAIN template_tags \cup DOMAIN computed_tags \cup listed |->
        IF k \in listed
        THEN (CHOOSE e \in {tag_list[i] : i \in 1..Len(tag_list)} : e["Key"] = k)["Value"]
        ELSE IF k \in DOMAIN computed_tags THEN computed_tags[k]
        ELSE template_tags[k]]

\* C3: for a project tag list of key/value pairs returned by the tag
\* service, the output Tags of extend_config are the template Tags overlaid
\* with the three computed tags overlaid with the project tags: a project
\* tag wins over a computed tag, either wins over a template tag, and a key
\* of one source only is kept.
C3_TagPrecedence ==
    (ExtendDone /\ out.ok /\ WellFormedTagList) =>
        out.val["Tags"] = ThreeWay(TemplateTagsOf(inp.stage_config), ComputedTags,
                                   inp.sm_client.list_tags.body["Tags"])

\* extend_config returned where the template, the computed tags and the
\* project tags all hold sagemaker:project-id, the template alone holds owner
\* and the project alone holds env
C3_Witness ==
    /\ ExtendDone
    /\ out.ok
    /\ WellFormedTagList
    /\ DOMAIN TemplateTagsOf(inp.stage_config) = {"sagemaker:project-id", "owner"}
    /\ {inp.sm_client.list_tags.body["Tags"][i]["Key"] :
            i \in 1..Len(inp.sm_client.list_tags.body["Tags"])}
        = {"sagemaker:project-id", "env"}

\* C9 as claimed: a failed tag listing leaves extend_config returning with
\* Tags = template Tags overlaid with the computed tags, and every other
\* failure inside extend_config, a failure while combining the computed
\* tags with the project tag list included, makes extend_config raise.
C9_SoleToleratedFailure ==
    ExtendDone =>
        /\ (HasStageName(inp.stage_config) /\ ~TagListReturned) =>
                /\ out.ok
                /\ out.val["Tags"] = Overlay(TemplateTagsOf(inp.stage_config), ComputedTags)
        /\ (HasStageName(inp.stage_config) /\ TagListReturned /\ ~WellFormedTagList) => ~out.ok
        /\ ~HasStageName(inp.stage_config) => ~out.ok

\* C9 amended: extend_config tolerates two failures. A failed tag listing
\* leaves Tags = template Tags overlaid with the computed tags. A failed
\* combination (a listed entry without "Key" or "Value") is logged and
\* leaves the combined tags empty, so Tags = the template Tags alone, the
\* computed tags dropped. The missing StageName raises out of extend_config.
C9_ToleratedFailures ==
    ExtendDone =>
        /\ (HasStageName(inp.stage_config) /\ ~TagListReturned) =>
                /\ out.ok
                /\ out.val["Tags"] = Overlay(TemplateTagsOf(inp.stage_config), ComputedTags)
                /\ log = <<Plain("Error getting project tags")>>
        /\ (HasStageName(inp.stage_config) /\ TagListReturned /\ ~WellFormedTagList) =>
                /\ out.ok
                /\ out.val["Tags"] = TemplateTagsOf(inp.stage_config)
                /\ log = <<Plain("Error getting resource tags")>>
        /\ ~HasStageName(inp.stage_config) =>
                /\ ~out.ok
                /\ out.err.type = "ValueError"
                /\ calls = <<>>

\* extend_config returned although combining the tags failed
C9_Witness ==
    /\ ExtendDone
    /\ out.ok
    /\ TagListReturned
    /\ ~WellFormedTagList
    /\ "owner" \in DOMAIN TemplateTagsOf(inp.stage_config)


---------------------------------------------------------------------------
(* Spec: a run of main(), src/get_baselines_and_configs.py 34-154.        *)
(* One action per statement that can raise; the templates, the registry's *)
(* and the services' answers are drawn when the statement asks for them.  *)
(* An exception of a statement leaves main() through its                   *)
(* @exception_handler: one more log line, then the run has failed.         *)

\* template files of a run: no Parameters; Parameters without StageName;
\* StageName alone; StageName with a bias override and Tags
MainTemplates(stage) ==
    {[k \in {"Tags"} |-> EmptyDict],
     [k \in {"Parameters"} |-> [j \in {"Custom"} |-> <<"template">>]],
     [k \in {"Parameters"} |-> [j \in {"StageName"} |-> stage]],
     [k \in {"Parameters", "Tags"} |->
        IF k = "Parameters"
        THEN [j \in {"StageName", "ModelBiasConfigS3Uri"} |->
                IF j = "StageName" THEN stage ELSE <<"template">>]
        ELSE [j \in {"owner", "sagemaker:project-id"} |-> <<"template">>]]}

\* the file system holding the template file_name, or not holding it
TemplateFiles(file_name, stage) ==
    {EmptyDict} \cup {[f \in {file_name} |-> t] : t \in MainTemplates(stage)}

\* the objects the registered URIs name, at the start of a run
MainStores ==
    {Overlay(Overlay(s1, s2), s3) :
        s1 \in StoresOver({UriLoc(RegisteredUri("Bias", "PreTrainingConstraints"))},
                          {json_dumps([k \in {"a"} |-> 1])}),
        s2 \in StoresOver({UriLoc(RegisteredUri("Bias", "PostTrainingConstraints"))},
                          {json_dumps([k \in {"a", "b"} |-> 2]), NotJson}),
        s3 \in StoresOver({UriLoc(RegisteredUri("Explainability", "ConfigFile"))},
                          {json_dumps([k \in {"predictor"} |-> [f \in {"x"} |-> "v"]]),
                           json_dumps([k \in {"a"} |-> "v"])})}

MainListTagsResponses ==
    {ServiceError,
     Response([Tags |-> <<[Key |-> "env", Value |-> <<"dev">>]>>]),
     Response([Tags |-> <<[Key |-> "broken"]>>])}

ImageLookups ==
    {[f \in {"model-monitor", "clarify"} |-> IF ok THEN Response(<<"img-", f>>) ELSE ServiceError] :
        ok \in BOOLEAN}

Unset == EmptyDict

Init ==
    /\ pc = "read_staging"
    /\ store \in MainStores
    /\ calls = <<>>
    /\ log = <<>>
    /\ inp = [fn |-> "main", args |-> Args]
    /\ out = NoOut
    /\ mainv = [at |-> "", staging_config |-> Unset, endpoint_name |-> <<>>,
                baselines |-> Unset, Bias |-> Unset, Explainability |-> Unset,
                updated_baselines |-> Unset, monitor_image_uri |-> <<>>,
                clarify_image_uri |-> <<>>, staging_monitor_config |-> Unset,
                prod_config |-> Unset, prod_monitor_config |-> Unset]
    /\ files = EmptyDict
    /\ raised = NoExc

\* the statement at step raised: main's handler logs and re-raises
Fails(r, step) ==
    LET m == exception_handler("main", r) IN
    /\ store' = m.fx.store
    /\ calls' = m.fx.calls
    /\ log' = m.fx.log
    /\ raised' = m.err
    /\ pc' = "failed"
    /\ mainv' = [mainv EXCEPT !.at = step]
    /\ UNCHANGED <<files, inp, out>>

\* the statement returned: its effects, the locals it assigns, the next step
Goes(r, locals, next) ==
    /\ store' = r.fx.store
    /\ calls' = r.fx.calls
    /\ log' = r.fx.log
    /\ mainv' = locals
    /\ pc' = next
    /\ UNCHANGED <<files, raised, inp, out>>

Now == Fx(store, calls, log)

\* 110: staging_config = read_config_from_json(args.import_staging_config)
ReadStagingConfig ==
    /\ pc = "read_staging"
    /\ \E fs \in TemplateFiles(Args.import_staging_config, <<"staging">>) :
        LET r == read_config_from_json(Args.import_staging_config, fs, Now) IN
        IF r.ok THEN Goes(r, [mainv EXCEPT !.staging_config = r.val], "endpoint_name")
        ELSE Fails(r, "read_staging")

\* 111: endpoint_name = f"{args.sagemaker_project_name}-{staging_config['Parameters']['StageName']}"
ComputeEndpointName ==
    /\ pc = "endpoint_name"
    /\ IF "Parameters" \notin DOMAIN mainv.staging_config
       THEN Fails(Raise(KeyError("Parameters"), Now), "endpoint_name")
       ELSE IF "StageName" \notin DOMAIN mainv.staging_config["Parameters"]
       THEN Fails(Raise(KeyError("StageName"), Now), "endpoint_name")
       ELSE Goes(Return(None, Now),
                 [mainv EXCEPT !.endpoint_name =
                    Args.sagemaker_project_name \o <<"-">>
                        \o mainv.staging_config["Parameters"]["StageName"]],
                 "resolve")

\* 112: baselines = get_baselines_and_model_name(endpoint_name, sm_client)
Resolve ==
    /\ pc = "resolve"
    /\ \E e \in DescribeEndpointResponses, c \in DescribeEndpointConfigResponses,
          m \in DescribeModelResponses, p \in DescribeModelPackageResponses :
        LET r == get_baselines_and_model_name(mainv.endpoint_name,
                    [describe_endpoint |-> e, describe_endpoint_config |-> c,
                     describe_model |-> m, describe_model_package |-> p], Now) IN
        IF r.ok THEN Goes(r, [mainv EXCEPT !.baselines = r.val], "bias")
        ELSE Fails(r, "resolve")

\* 118: "Bias": process_bias_baselines(baselines["DriftCheckBaselines"]["Bias"], s3_client)
ProcessBias ==
    /\ pc = "bias"
    /\ IF "Bias" \notin DOMAIN mainv.baselines.DriftCheckBaselines
       THEN Fails(Raise(KeyError("Bias"), Now), "bias")
       ELSE \E ok \in BOOLEAN :
            LET r == process_bias_baselines(mainv.baselines.DriftCheckBaselines["Bias"],
                                            [put_ok |-> ok], Now) IN
            IF r.ok THEN Goes(r, [mainv EXCEPT !.Bias = r.val], "explainability")
            ELSE Fails(r, "bias")

\* 119-121: "Explainability": process_explainability_config_file(
\*     baselines["DriftCheckBaselines"]["Explainability"], baselines["ModelName"], s3_client)
ProcessExplainability ==
    /\ pc = "explainability"
    /\ IF "Explainability" \notin DOMAIN mainv.baselines.DriftCheckBaselines
       THEN Fails(Raise(KeyError("Explainability"), Now), "explainability")
       ELSE \E ok \in BOOLEAN :
            LET r == process_explainability_config_file(
                        mainv.baselines.DriftCheckBaselines["Explainability"],
                        mainv.baselines.ModelName, [put_ok |-> ok], Now) IN
            IF r.ok THEN Goes(r, [mainv EXCEPT !.Explainability = r.val], "quality")
            ELSE Fails(r, "explainability")

\* 122-124: "ModelQuality": baselines["DriftCheckBaselines"]["ModelQuality"],
\*          "ModelDataQuality": baselines["DriftCheckBaselines"]["ModelDataQuality"]
CollectQuality ==
    /\ pc = "quality"
    /\ LET b == mainv.baselines.DriftCheckBaselines IN
       IF "ModelQuality" \notin DOMAIN b
       THEN Fails(Raise(KeyError("ModelQuality"), Now), "quality")
       ELSE IF "ModelDataQuality" \notin DOMAIN b
       THEN Fails(Raise(KeyError("ModelDataQuality"), Now), "quality")
       ELSE Goes(Return(None, Now),
                 [mainv EXCEPT !.updated_baselines =
                    [c \in Categories |->
                        CASE c = "Bias" -> mainv.Bias
                          [] c = "Explainability" -> mainv.Explainability
                          [] OTHER -> b[c]]],
                 "monitor_image")

\* 129-131: monitor_image_uri = get_built_in_model_monitor_image_uri(region, "model-monitor")
MonitorImageUri ==
    /\ pc = "monitor_image"
    /\ \E image_uris \in ImageLookups :
        LET r == get_built_in_model_monitor_image_uri("region", "model-monitor", image_uris, Now)
        IN  IF r.ok THEN Goes(r, [mainv EXCEPT !.monitor_image_uri = r.val], "clarify_image")
            ELSE Fails(r, "monitor_image")

\* 132-134: clarify_image_uri = get_built_in_model_monitor_image_uri(region, "clarify")
ClarifyImageUri ==
    /\ pc = "clarify_image"
    /\ \E image_uris \in ImageLookups :
        LET r == get_built_in_model_monitor_image_uri("region", "clarify", image_uris, Now)
        IN  IF r.ok THEN Goes(r, [mainv EXCEPT !.clarify_image_uri = r.val], "extend_staging")
            ELSE Fails(r, "clarify_image")

\* 138-140 with the staging export written as soon as it is computed
ExtendStaging_export_early ==
    /\ pc = "extend_staging"
    /\ \E t \in MainListTagsResponses :
        LET r == extend_config(Args, mainv.monitor_image_uri, mainv.clarify_image_uri,
                               mainv.updated_baselines, Args.monitor_outputs_bucket,
                               mainv.staging_config, [list_tags |-> t], Now) IN
        IF r.ok
        THEN /\ store' = r.fx.store
             /\ calls' = r.fx.calls
             /\ log' = r.fx.log
             /\ mainv' = [mainv EXCEPT !.staging_monitor_config = r.val]
             /\ pc' = "read_prod"
             /\ files' = [f \in {Args.export_staging_config} |-> r.val]
             /\ UNCHANGED <<raised, inp, out>>
        ELSE Fails(r, "extend_staging")

\* 138-140: staging_monitor_config = extend_config(..., staging_config, sm_client)
ExtendStaging ==
    /\ pc = "extend_staging"
    /\ \E t \in MainListTagsResponses :
        LET r == extend_config(Args, mainv.monitor_image_uri, mainv.clarify_image_uri,
                               mainv.updated_baselines, Args.monitor_outputs_bucket,
                               mainv.staging_config, [list_tags |-> t], Now) IN
        IF r.ok THEN Goes(r, [mainv EXCEPT !.staging_monitor_config = r.val], "read_prod")
        ELSE Fails(r, "extend_staging")

\* 147: read_config_from_json(args.import_prod_config), an argument of the
\* second extend_config call, evaluated before the call
ReadProdConfig ==
    /\ pc = "read_prod"
    /\ \E fs \in TemplateFiles(Args.import_prod_config, <<"prod">>) :
        LET r == read_config_from_json(Args.import_prod_config, fs, Now) IN
        IF r.ok THEN Goes(r, [mainv EXCEPT !.prod_config = r.val], "extend_prod")
        ELSE Fails(r, "read_prod")

\* 141-149: prod_monitor_config = extend_config(..., <the prod template>, sm_client)
ExtendProd ==
    /\ pc = "extend_prod"
    /\ \E t \in MainListTagsResponses :
        LET r == extend_config(Args, mainv.monitor_image_uri, mainv.clarify_image_uri,
                               mainv.updated_baselines, Args.monitor_outputs_bucket,
                               mainv.prod_config, [list_tags |-> t], Now) IN
        IF r.ok THEN Goes(r, [mainv EXCEPT !.prod_monitor_config = r.val], "write_staging")
        ELSE Fails(r, "extend_prod")

\* 153: write_config_to_json(args.export_staging_config, staging_monitor_config)
WriteStagingConfig ==
    /\ pc = "write_staging"
    /\ \E writable \in BOOLEAN :
        LET r == write_config_to_json(Args.export_staging_config,
                                      mainv.staging_monitor_config, writable, files, Now) IN
        IF r.ok
        THEN /\ files' = r.val
             /\ log' = r.fx.log
             /\ pc' = "write_prod"
             /\ UNCHANGED <<store, calls, mainv, raised, inp, out>>
        ELSE Fails(r, "write_staging")

\* 154: write_config_to_json(args.export_prod_config, prod_monitor_config)
WriteProdConfig ==
    /\ pc = "write_prod"
    /\ \E writable \in BOOLEAN :
        LET r == write_config_to_json(Args.export_prod_config,
                                      mainv.prod_monitor_config, writable, files, Now) IN
        IF r.ok
        THEN /\ files' = r.val
             /\ log' = r.fx.log
             /\ pc' = "done"
             /\ UNCHANGED <<store, calls, mainv, raised, inp, out>>
        ELSE Fails(r, "write_prod")

Next ==
    \/ ReadStagingConfig
    \/ ComputeEndpointName
    \/ Resolve
    \/ ProcessBias
    \/ ProcessExplainability
    \/ CollectQuality
    \/ MonitorImageUri
    \/ ClarifyImageUri
    \/ ExtendStaging
    \/ ReadProdConfig
    \/ ExtendProd
    \/ WriteStagingConfig
    \/ WriteProdConfig

Spec == Init /\ [][Next]_vars


---------------------------------------------------------------------------
(* Claims about a run of main(), checked under Spec *)

Failed == pc = "failed"

\* the run has passed the step, or failed at a later one
StepsBefore(step) ==
    CASE step = "endpoint_name" -> {"read_staging"}
      [] step = "bias" -> {"read_staging", "endpoint_name", "resolve"}
      [] step = "extend_prod" ->
            {"read_staging", "endpoint_name", "resolve", "bias", "explainability", "quality",
             "monitor_image", "clarify_image", "extend_staging", "read_prod"}
      [] step = "write_prod" ->
            {"read_staging", "endpoint_name", "resolve", "bias", "explainability", "quality",
             "monitor_image", "clarify_image", "extend_staging", "read_prod", "extend_prod",
             "write_staging"}
Reached(step) ==
    /\ pc \notin StepsBefore(step)
    /\ Failed => mainv.at \notin StepsBefore(step)

StagingRead == Reached("endpoint_name")
ProdRead == Reached("extend_prod")

IsHandlerLine(line) == line.msg # NoExc
\* the "Error in <function>: <message>" lines
HandlerLines == SelectSeq(log, IsHandlerLine)

OpsCalled == {calls[i].op : i \in 1..Len(calls)}
CallsOf(op) == {i \in 1..Len(calls) : calls[i].op = op}

MissingStageName == Exc("ValueError", "Configuration file must include SageName parameter")

\* C1 as claimed: once a template without Parameters.StageName has been
\* read, staging or production, the run goes no further than the failure,
\* and at the failure no service call and no object-store call has been
\* issued.
C1_FailsBeforeAnyCall ==
    /\ (StagingRead /\ ~HasStageName(mainv.staging_config)) =>
            /\ pc \in {"endpoint_name", "failed"}
            /\ Failed => calls = <<>>
    /\ (ProdRead /\ ~HasStageName(mainv.prod_config)) =>
            /\ pc \in {"extend_prod", "failed"}
            /\ Failed => calls = <<>>

\* C1 amended: a staging template without Parameters.StageName fails the
\* run before any call is issued, by the KeyError of main's own lookup of
\* StageName. A production template without it fails the run with
\* extend_config's missing-stage-name error, after the four describe calls,
\* the object-store reads and writes and the staging list_tags call, and
\* before the production list_tags call and any export file.
C1_StageNameValidation ==
    /\ (StagingRead /\ ~HasStageName(mainv.staging_config)) =>
            /\ pc \in {"endpoint_name", "failed"}
            /\ calls = <<>>
            /\ files = EmptyDict
            /\ Failed => /\ mainv.at = "endpoint_name"
                         /\ raised \in {KeyError("Parameters"), KeyError("StageName")}
    /\ (ProdRead /\ ~HasStageName(mainv.prod_config)) =>
            /\ pc \in {"extend_prod", "failed"}
            /\ files = EmptyDict
            /\ OpsCalled = {"describe_endpoint", "describe_endpoint_config", "describe_model",
                            "describe_model_package", "get_object", "put_object", "list_tags"}
            /\ Cardinality(CallsOf("list_tags")) = 1
            /\ Failed => /\ mainv.at = "extend_prod"
                         /\ raised = MissingStageName

\* the run failed on a production template without StageName
C1_Witness ==
    /\ Failed
    /\ ProdRead
    /\ ~HasStageName(mainv.prod_config)

\* C4 as claimed: when the resolver's output has an empty Bias category the
\* run does not fail on it, and the exported ModelBiasConstraintsS3Uri and
\* ModelBiasConfigS3Uri are "" unless the template defines them.
C4_EmptyBiasExportsEmpty ==
    (/\ Reached("bias")
     /\ "Bias" \in DOMAIN mainv.baselines.DriftCheckBaselines
     /\ mainv.baselines.DriftCheckBaselines["Bias"] = EmptyDict) =>
        /\ ~(Failed /\ mainv.at = "bias")
        /\ \A f \in DOMAIN files :
            \A k \in {"ModelBiasConstraintsS3Uri", "ModelBiasConfigS3Uri"} :
                LET t == IF f = Args.export_staging_config THEN mainv.staging_config
                         ELSE mainv.prod_config
                IN  files[f]["Parameters"][k] = DictGet(t["Parameters"], k, <<>>)

\* C5: an export file exists only once both extend_config calls have
\* returned; a run that failed at any step up to and including the second
\* extend_config (template validation, the resolver chain, the object-store
\* reads and writes, the image lookups, reading the production template) has
\* written no export file for either environment.
C5_NoPartialOutput ==
    /\ files # EmptyDict => Reached("write_prod")
    /\ (Failed /\ mainv.at \notin {"write_staging", "write_prod"}) => files = EmptyDict
    /\ \A f \in DOMAIN files :
            files[f] = IF f = Args.export_staging_config THEN mainv.staging_monitor_config
                       ELSE mainv.prod_monitor_config

\* the run failed in the second extend_config, after the staging
\* configuration had been computed
C5_Witness ==
    /\ Failed
    /\ mainv.at = "extend_prod"
    /\ files = EmptyDict

\* C10 as claimed: a failed run has emitted exactly one "Error in" line,
\* naming the failing operation and the exception that left main().
C10_SingleLogLine ==
    Failed =>
        /\ raised # NoExc
        /\ Len(HandlerLines) = 1
        /\ HandlerLines[1].msg = raised

\* the decorated function main() calls at each step
Callee ==
    [read_staging |-> "read_config_from_json",
     resolve |-> "get_baselines_and_model_name",
     bias |-> "process_bias_baselines",
     explainability |-> "process_explainability_config_file",
     monitor_image |-> "get_built_in_model_monitor_image_uri",
     clarify_image |-> "get_built_in_model_monitor_image_uri",
     extend_staging |-> "extend_config",
     read_prod |-> "read_config_from_json",
     extend_prod |-> "extend_config",
     write_staging |-> "write_config_to_json",
     write_prod |-> "write_config_to_json"]

AdapterFunctions ==
    {"get_bucket_name_and_file_key", "get_json_file_from_s3", "upload_json_to_s3"}

\* C10 amended: a failed run has emitted one "Error in" line for every
\* decorated function on the call stack at the failure, innermost first:
\* one when a statement of main() itself raised, two when a function main()
\* calls raised, three when an adapter function called by a post-processor
\* transform raised. Each line names its own function and carries the
\* exception that left main(); the last names main.
C10_LogLinePerHandler ==
    Failed =>
        LET h == HandlerLines
            n == Len(HandlerLines)
        IN  /\ raised # NoExc
            /\ n \in 1..3
            /\ \A i \in 1..n : h[i].msg = raised
            /\ h[n].fn = "main"
            /\ n >= 2 => /\ mainv.at \in DOMAIN Callee
                         /\ h[n - 1].fn = Callee[mainv.at]
            /\ n = 3 => /\ mainv.at \in {"bias", "explainability"}
                        /\ h[1].fn \in AdapterFunctions
            /\ mainv.at \notin DOMAIN Callee => n = 1

\* a run that failed in an adapter function called by a transform
C10_Witness ==
    /\ Failed
    /\ Len(HandlerLines) = 3
    /\ HandlerLines[1].fn = "get_json_file_from_s3"

====
